---- MODULE Spec2Model ----
(***************************************************************************)
(* Batch job orchestrator and progress broadcaster of the NeuroPixel       *)
(* backend (apps/backend/app/api/batch.py), with the pipeline executor it  *)
(* calls (apps/backend/app/core/pipeline.py).                              *)
(*                                                                         *)
(* The backend runs on one asyncio event loop: code between two awaits is  *)
(* atomic.  The awaits of a job's task are each ws.send_json of            *)
(* broadcast_progress and the asyncio.sleep after every input; request     *)
(* handlers (submit, cancel, websocket connect/disconnect) run whenever a  *)
(* task is suspended at one of them.                                       *)
(***************************************************************************)
EXTENDS Integers, Sequences, FiniteSets, TLC

\* ------------------------------------------------------------------ bounds
MaxJobs == 1        \* jobs submitted in one run
MaxInputs == 2      \* inputs of one job (ids of a request, files of a folder)
MaxObservers == 2   \* websocket clients that ever connect
MaxSteps == 1       \* steps of a submitted pipeline (a step may be inactive)
MaxPipelineLen == 3 \* steps of a pipeline executed on its own
MaxFiles == 2       \* plugin files in the library directory
MaxReloadFiles == 1 \* plugin files in the library while a batch job runs
MaxParams == 2      \* parameters a plugin declares
MaxImages == 2      \* images ever uploaded
MaxDeleteAll == 2   \* delete-all requests

JobIds == 1..MaxJobs
Observers == 1..MaxObservers

\* ------------------------------------------------------------------ state
VARIABLES
    batch_jobs,             \* batch.py:24   job_id -> BatchJob, NoJob when absent
    task,                   \* the position and locals of each run_batch_job task
    websocket_connections,  \* batch.py:27   the list of registered websockets
    ws_state,               \* each websocket: "new", "open", "broken", "closed"
    received,               \* per websocket, the <<job_id, k>> delivered to it (k-th snapshot of the job)
    published,              \* per job, the snapshots handed to broadcast_progress, in order
    present_at_start,       \* per job, the websockets registered when its run loop started
    execution,              \* pipeline.py:51  the locals of one Pipeline.execute call
    registry,               \* manager.py:34-35  plugin_manager._plugins and ._specs
    library,                \* manager.py:36  the plugin files of the library directory
    reload_reply,           \* system.py:164  the reply to the last POST /reload-plugins
    params_call,            \* plugin_spec.py:134  one ImagePlugin.validate_params call
    cache                   \* images.py:25, batch.py:18  the image cache dicts and the names bound to them

batch_vars == <<batch_jobs, task, websocket_connections, ws_state, received, published,
                present_at_start>>

\* The state of the plugin manager, of a validate_params call and of the image cache
aside == <<registry, library, reload_reply, params_call, cache>>

vars == <<batch_jobs, task, websocket_connections, ws_state, received, published,
          present_at_start, execution, registry, library, reload_reply, params_call, cache>>

NoJob == [status |-> "absent"]
NoWs == 0

\* ------------------------------------------------------------------ sequences
\* Python: `x in list`
InList(x, l) == \E k \in 1..Len(l) : l[k] = x

\* Python: list.remove(x), which removes the first occurrence
ListRemove(l, x) ==
    IF ~InList(x, l) THEN l
    ELSE LET p == CHOOSE k \in 1..Len(l) : l[k] = x /\ \A m \in 1..(k - 1) : l[m] # x
         IN  [k \in 1..(Len(l) - 1) |-> IF k < p THEN l[k] ELSE l[k + 1]]

\* Opaque input references 1..n, in submission order
Refs(n) == [k \in 1..n |-> k]

\* ------------------------------------------------------------------ pipeline
PluginNames == {"blur", "ghost"}

\* PluginSpec.name of a plugin file: a plugin name, or the empty string
FileNames == PluginNames \cup {""}

\* What loading a plugin file does (manager.py:52-82): it loads and registers;
\* spec_from_file_location gives no loader; exec_module raises; the module lacks
\* SPEC or plugin; reading SPEC.name or the registration raises; the plugin is
\* registered and the "Loaded plugin" line then raises
Outcomes == {"ok", "no_loader", "import_raises", "no_exports", "registration_raises",
             "log_raises"}

\* A plugin file: the name of its SPEC, what loading it does, and whether its
\* descriptor's parameters keep their defaults within their bounds
PluginFiles == [name : FileNames, outcome : Outcomes, wellformed : BOOLEAN]

\* The library directory, in the order glob yields the files
LibrariesUpTo(n) == UNION {[1..k -> PluginFiles] : k \in 0..n}
Libraries == LibrariesUpTo(MaxFiles)

\* No plugin is registered under the name
NoPlugin == 0

\* PluginManager.__init__ and the clear() calls of discover_plugins: the empty
\* dicts.  An entry is the position in the library of the file it came from.
EmptyRegistry ==
    [plugins |-> [n \in FileNames |-> NoPlugin], specs |-> [n \in FileNames |-> NoPlugin]]

\* The registration statements of discover_plugins are reached and completed
Loads(file) == file.outcome \in {"ok", "log_raises"}

\* A discovery that gives up at the first file that fails to load
RECURSIVE DiscoverFromAborts(_, _, _)
DiscoverFromAborts(files, k, reg) ==
    IF k > Len(files) THEN reg
    ELSE IF ~Loads(files[k]) THEN reg
    ELSE DiscoverFromAborts(files, k + 1,
           [plugins |-> [reg.plugins EXCEPT ![files[k].name] = k],
            specs |-> [reg.specs EXCEPT ![files[k].name] = k]])

\* A discovery that keeps the first plugin registered under a name
RECURSIVE DiscoverFromFirstWins(_, _, _)
DiscoverFromFirstWins(files, k, reg) ==
    IF k > Len(files) THEN reg
    ELSE IF ~Loads(files[k]) \/ reg.plugins[files[k].name] # NoPlugin
      THEN DiscoverFromFirstWins(files, k + 1, reg)
    ELSE DiscoverFromFirstWins(files, k + 1,
           [plugins |-> [reg.plugins EXCEPT ![files[k].name] = k],
            specs |-> [reg.specs EXCEPT ![files[k].name] = k]])

\* discover_plugins, lines 49-82: the loop over the plugin files from file k on
RECURSIVE DiscoverFrom(_, _, _)
DiscoverFrom(files, k, reg) ==
    IF k > Len(files) THEN reg
    ELSE IF ~Loads(files[k]) THEN DiscoverFrom(files, k + 1, reg)
    ELSE DiscoverFrom(files, k + 1,
           [plugins |-> [reg.plugins EXCEPT ![files[k].name] = k],
            specs |-> [reg.specs EXCEPT ![files[k].name] = k]])

\* discover_plugins: both dicts are cleared, then every file is gone through
Discover(files) == DiscoverFrom(files, 1, EmptyRegistry)

\* discover_plugins: the count it returns
RECURSIVE DiscoverCount(_)
DiscoverCount(files) ==
    IF files = <<>> THEN 0
    ELSE (IF Head(files).outcome = "ok" THEN 1 ELSE 0) + DiscoverCount(Tail(files))

\* The library at process start: one well-formed plugin
StartupLibrary == <<[name |-> "blur", outcome |-> "ok", wellformed |-> TRUE]>>

\* plugin_manager.get_plugin(name) is not None: the names that resolve
Registered == {n \in FileNames : registry.plugins[n] # NoPlugin}

PipelineSteps == [plugin_name : PluginNames, active : BOOLEAN]
Pipelines == [1..MaxSteps -> PipelineSteps]

\* A validation that stops at the first step that does not resolve
RECURSIVE ValidateFromStopsAtFirst(_, _)
ValidateFromStopsAtFirst(steps, i) ==
    IF i > Len(steps) THEN <<>>
    ELSE IF steps[i].plugin_name \notin Registered
      THEN <<[kind |-> "not_found", step |-> i - 1, plugin |-> steps[i].plugin_name]>>
      ELSE ValidateFromStopsAtFirst(steps, i + 1)

\* Pipeline.validate: one error per step whose plugin does not resolve, active or not
RECURSIVE ValidateFrom(_, _)
ValidateFrom(steps, i) ==
    IF i > Len(steps) THEN <<>>
    ELSE (IF steps[i].plugin_name \notin Registered
            THEN <<[kind |-> "not_found", step |-> i - 1, plugin |-> steps[i].plugin_name]>>
            ELSE <<>>)
         \o ValidateFrom(steps, i + 1)

\* A validation that looks at the active steps only
ValidateActiveOnly(steps) ==
    LET errors == ValidateFrom(SelectSeq(steps, LAMBDA st : st.active), 1)
    IN  [is_valid |-> Len(errors) = 0, errors |-> errors]

Validate(steps) ==
    LET errors == ValidateFrom(steps, 1)
    IN  [is_valid |-> Len(errors) = 0, errors |-> errors]

\* plugin_manager.execute raises when the plugin does not resolve, and when the
\* plugin's run raises (raises: the step indices, 1-based, whose run raises)
StepRaises(steps, i, raises) ==
    steps[i].plugin_name \notin Registered \/ i \in raises

\* An executor that keeps the output of a step that raised
RECURSIVE ExecuteFromKeepsFailedOutput(_, _, _, _)
ExecuteFromKeepsFailedOutput(steps, i, raises, acc) ==
    IF i > Len(steps) THEN acc
    ELSE IF ~steps[i].active THEN ExecuteFromKeepsFailedOutput(steps, i + 1, raises, acc)
    ELSE IF StepRaises(steps, i, raises)
      THEN ExecuteFromKeepsFailedOutput(steps, i + 1, raises,
             [acc EXCEPT !.errors = Append(@, [kind |-> "step", step |-> i - 1,
                                               plugin |-> steps[i].plugin_name]),
                         !.image = Append(@, steps[i].plugin_name)])
      ELSE ExecuteFromKeepsFailedOutput(steps, i + 1, raises,
             [acc EXCEPT !.image = Append(@, steps[i].plugin_name),
                         !.steps_executed = @ + 1])

\* An executor that counts a step before calling it, so raising steps count too
RECURSIVE ExecuteFromCountsAttempts(_, _, _, _)
ExecuteFromCountsAttempts(steps, i, raises, acc) ==
    IF i > Len(steps) THEN acc
    ELSE IF ~steps[i].active THEN ExecuteFromCountsAttempts(steps, i + 1, raises, acc)
    ELSE IF StepRaises(steps, i, raises)
      THEN ExecuteFromCountsAttempts(steps, i + 1, raises,
             [acc EXCEPT !.errors = Append(@, [kind |-> "step", step |-> i - 1,
                                               plugin |-> steps[i].plugin_name]),
                         !.steps_executed = @ + 1])
      ELSE ExecuteFromCountsAttempts(steps, i + 1, raises,
             [acc EXCEPT !.image = Append(@, steps[i].plugin_name),
                         !.steps_executed = @ + 1])

\* An executor that stops at the first step that raises
RECURSIVE ExecuteFromStopsAtError(_, _, _, _)
ExecuteFromStopsAtError(steps, i, raises, acc) ==
    IF i > Len(steps) THEN acc
    ELSE IF ~steps[i].active THEN ExecuteFromStopsAtError(steps, i + 1, raises, acc)
    ELSE IF acc.errors # <<>> THEN acc
    ELSE IF StepRaises(steps, i, raises)
      THEN ExecuteFromStopsAtError(steps, i + 1, raises,
             [acc EXCEPT !.errors = Append(@, [kind |-> "step", step |-> i - 1,
                                               plugin |-> steps[i].plugin_name])])
      ELSE ExecuteFromStopsAtError(steps, i + 1, raises,
             [acc EXCEPT !.image = Append(@, steps[i].plugin_name),
                         !.steps_executed = @ + 1])

\* An executor that does not look at step.active
RECURSIVE ExecuteFromIgnoresActive(_, _, _, _)
ExecuteFromIgnoresActive(steps, i, raises, acc) ==
    IF i > Len(steps) THEN acc
    ELSE IF StepRaises(steps, i, raises)
      THEN ExecuteFromIgnoresActive(steps, i + 1, raises,
             [acc EXCEPT !.errors = Append(@, [kind |-> "step", step |-> i - 1,
                                               plugin |-> steps[i].plugin_name])])
      ELSE ExecuteFromIgnoresActive(steps, i + 1, raises,
             [acc EXCEPT !.image = Append(@, steps[i].plugin_name),
                         !.steps_executed = @ + 1])

\* Pipeline.execute from step i on, with the working image and the results so far.
\* An image is the sequence of plugin names applied to the input.
RECURSIVE ExecuteFrom(_, _, _, _)
ExecuteFrom(steps, i, raises, acc) ==
    IF i > Len(steps) THEN acc
    ELSE IF ~steps[i].active THEN ExecuteFrom(steps, i + 1, raises, acc)
    ELSE IF StepRaises(steps, i, raises)
      THEN ExecuteFrom(steps, i + 1, raises,
             [acc EXCEPT !.errors = Append(@, [kind |-> "step", step |-> i - 1,
                                               plugin |-> steps[i].plugin_name])])
      ELSE ExecuteFrom(steps, i + 1, raises,
             [acc EXCEPT !.image = Append(@, steps[i].plugin_name),
                         !.steps_executed = @ + 1])

Execute(steps, image, raises) ==
    LET r == ExecuteFrom(steps, 1, raises,
                         [image |-> image, errors |-> <<>>, steps_executed |-> 0])
    IN  [image |-> r.image, errors |-> r.errors, steps_executed |-> r.steps_executed,
         success |-> Len(r.errors) = 0]

\* The images a Pipeline.execute call is given: untouched, or already processed
InputImages == {<<>>, <<"blur">>}

\* Pipeline.__init__: the step lists of up to n steps
PipelinesUpTo(n) == UNION {[1..k -> PipelineSteps] : k \in 0..n}

\* Pipeline.validate has not been called on the pipeline
NoValidation == [called |-> FALSE]

\* No Pipeline.execute call is in progress
NoExecution == [pc |-> "none"]

\* Pipeline.execute, lines 68-71: the locals when the loop is entered; `calls` logs
\* what plugin_manager.execute is called with
NewExecution(steps, image, raises) ==
    [pc |-> "loop", steps |-> steps, raises |-> raises, image |-> image, i |-> 1,
     current_image |-> image, errors |-> <<>>, steps_executed |-> 0, calls |-> <<>>,
     validation |-> NoValidation]

\* Pipeline.execute, lines 93-98: what the call returns
ExecutionResult(e) ==
    [image |-> e.current_image, success |-> Len(e.errors) = 0,
     steps_executed |-> e.steps_executed, errors |-> e.errors]

\* No POST /reload-plugins has been answered
NoReload == [sent |-> FALSE]

\* initialize_plugins at process start: the registry holds what the library held
PluginsAtStartup ==
    /\ library = StartupLibrary
    /\ registry = Discover(StartupLibrary)
    /\ reload_reply = NoReload

\* No validate_params call is in progress
NoParamsCall == [pc |-> "none"]

\* The names a descriptor declares its parameters under
ParamNames == {"p", "q"}

\* A declared parameter (FloatParam, RangeParam): its name, its type and its
\* defaults; a range parameter carries default_low and default_high, every other
\* one carries default
ParamDecls ==
    [name : ParamNames, type : {"float", "range"}, default : {0}, default_low : {0},
     default_high : {3}]

\* SPEC.params: the declared parameters, in order
ParamLists == UNION {[1..k -> ParamDecls] : k \in 0..MaxParams}

\* The keys a caller's keyword arguments can carry: the declared names, the
\* f"{name}_low" and f"{name}_high" keys, and a key no descriptor knows
GivenKeys ==
    ParamNames \cup {n \o "_low" : n \in ParamNames} \cup {n \o "_high" : n \in ParamNames}
        \cup {"extra"}

\* The values a caller passes
GivenValues == {1, 2}

\* **kwargs: a dict from some of the keys to values
GivenDicts == UNION {[K -> GivenValues] : K \in SUBSET GivenKeys}

\* validated[key] = value
Put(d, key, value) ==
    [x \in DOMAIN d \cup {key} |-> IF x = key THEN value ELSE d[x]]

\* validate_params, lines 142-151: the loop over SPEC.params from parameter k on
RECURSIVE ValidateParamsFrom(_, _, _, _)
ValidateParamsFrom(params, k, kwargs, validated) ==
    IF k > Len(params) THEN validated
    ELSE LET param == params[k]
             name == param.name
         IN  IF name \in DOMAIN kwargs
               THEN ValidateParamsFrom(params, k + 1, kwargs,
                                       Put(validated, name, kwargs[name]))
             ELSE IF param.type = "range"
               THEN ValidateParamsFrom(params, k + 1, kwargs,
                      Put(Put(validated, name \o "_low", param.default_low),
                          name \o "_high", param.default_high))
             ELSE ValidateParamsFrom(params, k + 1, kwargs,
                                     Put(validated, name, param.default))

\* ImagePlugin.validate_params
ValidateParams(params, kwargs) == ValidateParamsFrom(params, 1, kwargs, <<>>)

\* The dict objects that can exist: the one created at import and one per delete-all
Dicts == 1..(MaxDeleteAll + 1)
ImageIds == 1..MaxImages

\* images.py:25 and batch.py:18 at import: one empty dict, which the name
\* image_cache of images.py and the name image_cache of batch.py are both bound to
NewCache ==
    [dicts |-> [d \in Dicts |-> {}], images |-> 1, batch |-> 1, uploaded |-> 0]

\* ------------------------------------------------------------------ batch job
Terminal == {"completed", "failed", "cancelled"}

\* BatchJob.__init__
NewJob(source_image_ids, pipeline, source_paths) ==
    [status |-> "pending",
     current |-> 0,
     total |-> IF source_image_ids # <<>> THEN Len(source_image_ids) ELSE Len(source_paths),
     processed |-> 0,
     failed |-> 0,
     errors |-> <<>>,
     start_time |-> FALSE,
     end_time |-> FALSE,
     cancelled |-> FALSE,
     source_image_ids |-> source_image_ids,
     source_paths |-> source_paths,
     pipeline |-> pipeline]

\* BatchJob.get_progress_message
ProgressMessage(j, job) ==
    [job_id |-> j, status |-> job.status, current |-> job.current, total |-> job.total]

\* run_batch_job: items_to_process
ItemsToProcess(job) ==
    IF job.source_paths # <<>> THEN job.source_paths ELSE job.source_image_ids

\* A task: its position, the loop index i, and the locals of the broadcast_progress
\* call in progress (the iterator's index, `disconnected`, the websocket whose send
\* has not returned, the websockets registered when the call began)
IdleTask == [pc |-> "none", i |-> 0, bidx |-> 0, disconnected |-> <<>>,
             ret |-> "none", waiting |-> NoWs, audience |-> {}]

Init ==
    /\ batch_jobs = [j \in JobIds |-> NoJob]
    /\ task = [j \in JobIds |-> IdleTask]
    /\ websocket_connections = <<>>
    /\ ws_state = [w \in Observers |-> "new"]
    /\ received = [w \in Observers |-> <<>>]
    /\ published = [j \in JobIds |-> <<>>]
    /\ present_at_start = [j \in JobIds |-> {}]
    /\ execution = NoExecution
    /\ PluginsAtStartup
    /\ params_call = NoParamsCall
    /\ cache = NewCache

\* ------------------------------------------------------------------ submit
\* A request (BatchRunRequest): the pipeline steps, the image ids, and whether an
\* input folder is named.  A folder scan says whether the named folder exists and
\* which image files it holds; `inCache`: every id of the request is in the cache.
Requests == [pipeline_steps : Pipelines,
             source_image_ids : {Refs(n) : n \in 0..MaxInputs},
             input_folder : BOOLEAN]
FolderScans == [exists : BOOLEAN, files : {Refs(n) : n \in 0..MaxInputs}]

\* start_batch_run: the source_paths of the request
ScannedPaths(req, scan) ==
    IF req.input_folder THEN scan.files ELSE <<>>

\* start_batch_run: whether the request passes every check
Accepted(req, scan, inCache) ==
    /\ Validate(req.pipeline_steps).is_valid
    /\ IF req.input_folder
         THEN scan.exists /\ scan.files # <<>>
         ELSE req.source_image_ids # <<>> /\ inCache

\* uuid4: an id no stored job has
FreshJobId ==
    CHOOSE j \in JobIds :
        batch_jobs[j] = NoJob /\ \A k \in 1..(j - 1) : batch_jobs[k] # NoJob

\* start_batch_run: what the caller gets, by the order of the checks
SubmitReply(req, scan, inCache) ==
    IF ~Validate(req.pipeline_steps).is_valid THEN "400 invalid pipeline"
    ELSE IF req.input_folder
      THEN (IF ~scan.exists THEN "404 folder not found"
            ELSE IF scan.files = <<>> THEN "404 no images"
            ELSE "started")
    ELSE IF req.source_image_ids # <<>>
      THEN (IF ~inCache THEN "404 images not found" ELSE "started")
    ELSE "400 no input"

\* start_batch_run for one request: an accepted request stores the job and
\* schedules its task; a rejected one raises HTTPException and changes nothing
SubmitRequest(req, scan, inCache) ==
    /\ \E j \in JobIds : batch_jobs[j] = NoJob
    /\ IF Accepted(req, scan, inCache)
         THEN /\ batch_jobs' = [batch_jobs EXCEPT ![FreshJobId] =
                     NewJob(req.source_image_ids, req.pipeline_steps,
                            ScannedPaths(req, scan))]
              /\ task' = [task EXCEPT ![FreshJobId] = [IdleTask EXCEPT !.pc = "scheduled"]]
         ELSE UNCHANGED <<batch_jobs, task>>
    /\ UNCHANGED <<websocket_connections, ws_state, received, published, present_at_start,
                   execution, aside>>

Submit ==
    \E req \in Requests, scan \in FolderScans, inCache \in BOOLEAN :
        SubmitRequest(req, scan, inCache)

\* ------------------------------------------------------------------ broadcaster
\* The websockets in the registry
Registry == {w \in Observers : InList(w, websocket_connections)}

\* broadcast_progress is entered: the message is built and the iteration over
\* websocket_connections starts; `ret` is where run_batch_job continues afterwards
EnterBroadcast(t, ret) ==
    [t EXCEPT !.pc = "bcast", !.bidx = 0, !.disconnected = <<>>, !.ret = ret,
              !.waiting = NoWs, !.audience = Registry]

\* broadcast_progress, lines 128-130: remove the websockets whose send raised
RECURSIVE RemoveDisconnected(_, _)
RemoveDisconnected(conns, disconnected) ==
    IF disconnected = <<>> THEN conns
    ELSE RemoveDisconnected(ListRemove(conns, Head(disconnected)), Tail(disconnected))

\* The snapshot a broadcast in progress is delivering: the k-th of its job
Delivering(j) == <<j, Len(published[j])>>

\* A publish whose message is built from the job as it was before the step
PublishStale(j, job) == Append(published[j], ProgressMessage(j, batch_jobs[j]))

\* run_batch_job calls broadcast_progress(job.get_progress_message())
Publish(j, job) == Append(published[j], ProgressMessage(j, job))

\* One turn of `for ws in websocket_connections` (a list iterator: it reads the
\* list as it is now, at its own index).  The send to an open websocket is
\* delivered, or does not return (the client has stopped reading); the send to a
\* broken or closed one raises.  When the iterator is exhausted the failed
\* websockets are removed and run_batch_job continues.
BroadcastStep(j) ==
    /\ task[j].pc = "bcast"
    /\ IF task[j].bidx < Len(websocket_connections)
         THEN LET ws == websocket_connections[task[j].bidx + 1]
              IN  /\ UNCHANGED websocket_connections
                  /\ IF ws_state[ws] = "open"
                       THEN \/ /\ received' = [received EXCEPT ![ws] = Append(@, Delivering(j))]
                               /\ task' = [task EXCEPT ![j].bidx = @ + 1]
                            \/ /\ task' = [task EXCEPT ![j].bidx = @ + 1,
                                                       ![j].pc = "blocked",
                                                       ![j].waiting = ws]
                               /\ UNCHANGED received
                       ELSE /\ task' = [task EXCEPT ![j].bidx = @ + 1,
                                                    ![j].disconnected = Append(@, ws)]
                            /\ UNCHANGED received
         ELSE /\ websocket_connections' =
                    RemoveDisconnected(websocket_connections, task[j].disconnected)
              /\ task' = [task EXCEPT ![j].pc = task[j].ret, ![j].bidx = 0,
                                      ![j].disconnected = <<>>, ![j].ret = "none",
                                      ![j].audience = {}]
              /\ UNCHANGED received
    /\ UNCHANGED <<batch_jobs, ws_state, published, present_at_start, execution, aside>>

\* A send that has not returned raises once its connection is broken
BlockedSendRaises(j) ==
    /\ task[j].pc = "blocked"
    /\ ws_state[task[j].waiting] \in {"broken", "closed"}
    /\ task' = [task EXCEPT ![j].pc = "bcast", ![j].waiting = NoWs,
                            ![j].disconnected = Append(@, task[j].waiting)]
    /\ UNCHANGED <<batch_jobs, websocket_connections, ws_state, received, published,
                   present_at_start, execution, aside>>

\* batch_progress_websocket, lines 311-312: accept and register (websockets are
\* numbered in the order they connect)
Connect(w) ==
    /\ ws_state[w] = "new"
    /\ \A v \in 1..(w - 1) : ws_state[v] # "new"
    /\ ws_state' = [ws_state EXCEPT ![w] = "open"]
    /\ websocket_connections' = Append(websocket_connections, w)
    /\ UNCHANGED <<batch_jobs, task, received, published, present_at_start, execution, aside>>

\* The connection closes: sends to it raise from now on
Break(w) ==
    /\ ws_state[w] = "open"
    /\ ws_state' = [ws_state EXCEPT ![w] = "broken"]
    /\ UNCHANGED <<batch_jobs, task, websocket_connections, received, published,
                   present_at_start, execution, aside>>

\* batch_progress_websocket, lines 329-333: receive_text raises WebSocketDisconnect
\* and the handler removes its websocket from the list
HandlerExit(w) ==
    /\ ws_state[w] = "broken"
    /\ ws_state' = [ws_state EXCEPT ![w] = "closed"]
    /\ websocket_connections' = ListRemove(websocket_connections, w)
    /\ UNCHANGED <<batch_jobs, task, received, published, present_at_start, execution, aside>>

\* ------------------------------------------------------------------ run loop
\* A run loop that never looks at the flag
CancelIgnored(job) == FALSE

\* A run loop that gives up at the first failed input
AbortOnFailure(job) == job.cancelled \/ job.failed > 0

\* run_batch_job, line 150: the cancellation check at an input boundary
CancelObserved(job) == job.cancelled

\* A strict policy: any failed input fails the job
FinalStatusStrict(job) ==
    IF job.failed = 0 THEN "completed" ELSE "failed"

\* run_batch_job, line 219
FinalStatus(job) ==
    IF job.failed = 0 THEN "completed"
    ELSE IF job.processed = 0 THEN "failed"
    ELSE "completed"

\* run_batch_job, lines 217-219
Finalize(job) ==
    LET ended == [job EXCEPT !.end_time = TRUE]
    IN  [ended EXCEPT !.status = FinalStatus(ended)]

\* run_batch_job, line 184: the step errors of the pipeline are added to the job's
StepErrorsRecorded(errors, exec_result) == errors \o exec_result.errors

\* A loop whose except branch counts the failure and appends no message
ProcessInputNoMessage(job, i, loadOk, raises, saveOk) ==
    LET started == [job EXCEPT !.current = i + 1]
    IN  IF ~loadOk
          THEN [started EXCEPT !.failed = @ + 1]
          ELSE LET exec_result == Execute(job.pipeline, <<>>, raises)
                   executed == [started EXCEPT !.errors = @ \o exec_result.errors]
               IN  IF saveOk
                     THEN [executed EXCEPT !.processed = @ + 1]
                     ELSE [executed EXCEPT !.failed = @ + 1]

\* A loop that moves `current` on and leaves the counters for a later turn
ProcessInputTorn(job, i, loadOk, raises, saveOk) == [job EXCEPT !.current = i + 1]

\* run_batch_job, lines 154-209 for input i (0-based): the load, the pipeline and
\* the save; `raises`: the steps whose plugin raises on this image
ProcessInput(job, i, loadOk, raises, saveOk) ==
    LET started == [job EXCEPT !.current = i + 1]
        input_error == [kind |-> "input", step |-> i, plugin |-> "-"]
    IN  IF ~loadOk
          THEN [started EXCEPT !.errors = Append(@, input_error), !.failed = @ + 1]
          ELSE LET exec_result == Execute(job.pipeline, <<>>, raises)
                   executed == [started EXCEPT
                                  !.errors = StepErrorsRecorded(@, exec_result)]
               IN  IF saveOk
                     THEN [executed EXCEPT !.processed = @ + 1]
                     ELSE [executed EXCEPT !.errors = Append(@, input_error),
                                           !.failed = @ + 1]

\* run_batch_job, lines 135-141: the task starts.  mkdir is outside every try: when
\* it raises, the task ends there.
Start(j) ==
    /\ task[j].pc = "scheduled"
    /\ \E mkdirOk \in BOOLEAN :
         LET job == [batch_jobs[j] EXCEPT !.status = "processing", !.start_time = TRUE]
         IN  /\ batch_jobs' = [batch_jobs EXCEPT ![j] = job]
             /\ IF mkdirOk
                  THEN /\ published' = [published EXCEPT ![j] = Publish(j, job)]
                       /\ task' = [task EXCEPT ![j] = EnterBroadcast(@, "loop")]
                  ELSE /\ task' = [task EXCEPT ![j].pc = "crashed"]
                       /\ UNCHANGED published
    /\ present_at_start' = [present_at_start EXCEPT ![j] = Registry]
    /\ UNCHANGED <<websocket_connections, ws_state, received, execution, aside>>

\* run_batch_job, lines 149-221, from one await to the next: the loop takes its
\* next item, or leaves (by cancellation or exhaustion) and finalizes; either way
\* it then publishes a snapshot
LoopIteration(j) ==
    /\ task[j].pc \in {"loop", "sleep"}
    /\ LET job == batch_jobs[j]
           i == task[j].i
       IN  IF i < Len(ItemsToProcess(job)) /\ ~CancelObserved(job)
             THEN \E loadOk \in BOOLEAN, saveOk \in BOOLEAN,
                     raises \in SUBSET (1..Len(job.pipeline)) :
                    LET done == ProcessInput(job, i, loadOk, raises, saveOk)
                    IN  /\ batch_jobs' = [batch_jobs EXCEPT ![j] = done]
                        /\ published' = [published EXCEPT ![j] = Publish(j, done)]
                        /\ task' = [task EXCEPT ![j] =
                                      EnterBroadcast([@ EXCEPT !.i = i + 1], "sleep")]
             ELSE LET left == IF i < Len(ItemsToProcess(job))
                                THEN [job EXCEPT !.status = "cancelled"]
                                ELSE job
                      final == Finalize(left)
                  IN  /\ batch_jobs' = [batch_jobs EXCEPT ![j] = final]
                      /\ published' = [published EXCEPT ![j] = Publish(j, final)]
                      /\ task' = [task EXCEPT ![j] = EnterBroadcast(@, "done")]
    /\ UNCHANGED <<websocket_connections, ws_state, received, present_at_start, execution, aside>>

\* A cancel that marks the job cancelled itself, at once
CancelSetsStatus(j) ==
    /\ batch_jobs[j] # NoJob
    /\ batch_jobs' = [batch_jobs EXCEPT ![j].cancelled = TRUE, ![j].status = "cancelled"]
    /\ UNCHANGED <<task, websocket_connections, ws_state, received, published,
                   present_at_start, execution, aside>>

\* cancel_batch_job
Cancel(j) ==
    /\ batch_jobs[j] # NoJob
    /\ batch_jobs' = [batch_jobs EXCEPT ![j].cancelled = TRUE]
    /\ UNCHANGED <<task, websocket_connections, ws_state, received, published,
                   present_at_start, execution, aside>>

\* BatchJob.get_result: what get_batch_status returns for a stored job
StatusReply(j) ==
    [job_id |-> j, status |-> batch_jobs[j].status, processed |-> batch_jobs[j].processed,
     failed |-> batch_jobs[j].failed, total |-> batch_jobs[j].total,
     errors |-> batch_jobs[j].errors]

\* get_batch_status: reads the job table and changes nothing
GetStatus(j) ==
    /\ batch_jobs[j] # NoJob
    /\ StatusReply(j).job_id = j
    /\ UNCHANGED vars

\* A pull that lists every stored job
EveryJob ==
    {ProgressMessage(j, batch_jobs[j]) : j \in {k \in JobIds : batch_jobs[k] # NoJob}}

\* batch_progress_websocket, lines 321-326: the reply to the text "status"
ActiveJobs ==
    {ProgressMessage(j, batch_jobs[j]) :
        j \in {k \in JobIds : batch_jobs[k].status \in {"pending", "processing"}}}

\* batch_progress_websocket, lines 318-327: a connected client sends "status" and
\* is sent the active jobs; nothing of the state changes
Pull(w) ==
    /\ ws_state[w] = "open"
    /\ \A m \in ActiveJobs : batch_jobs[m.job_id] # NoJob
    /\ UNCHANGED vars

\* ------------------------------------------------------------------ specification
JobStep(j) == Start(j) \/ BroadcastStep(j) \/ BlockedSendRaises(j) \/ LoopIteration(j)

Next ==
    \/ Submit
    \/ \E j \in JobIds : JobStep(j)
    \/ \E j \in JobIds : Cancel(j)
    \/ \E j \in JobIds : GetStatus(j)
    \/ \E w \in Observers : Pull(w)
    \/ \E w \in Observers : Connect(w)
    \/ \E w \in Observers : Break(w)
    \/ \E w \in Observers : HandlerExit(w)

Spec == Init /\ [][Next]_vars

\* The event loop runs every task that can run
FairSpec == Spec /\ \A j \in JobIds : WF_vars(JobStep(j))

\* ------------------------------------------------------------------ pipeline run
\* A Pipeline.execute call on its own: any step list, input image and set of steps
\* whose plugin raises
PipelineInit ==
    /\ batch_jobs = [j \in JobIds |-> NoJob]
    /\ task = [j \in JobIds |-> IdleTask]
    /\ websocket_connections = <<>>
    /\ ws_state = [w \in Observers |-> "new"]
    /\ received = [w \in Observers |-> <<>>]
    /\ published = [j \in JobIds |-> <<>>]
    /\ present_at_start = [j \in JobIds |-> {}]
    /\ \E steps \in PipelinesUpTo(MaxPipelineLen), image \in InputImages :
         \E raises \in SUBSET (1..Len(steps)) :
            execution = NewExecution(steps, image, raises)
    /\ PluginsAtStartup
    /\ params_call = NoParamsCall
    /\ cache = NewCache

\* Pipeline.execute, lines 73-91: one turn of `for i, step in enumerate(self.steps)`
ExecuteStep ==
    /\ execution.pc = "loop"
    /\ execution.i <= Len(execution.steps)
    /\ LET i == execution.i
           step == execution.steps[i]
           acc == ExecuteFrom(SubSeq(execution.steps, 1, i), i, execution.raises,
                              [image |-> execution.current_image,
                               errors |-> execution.errors,
                               steps_executed |-> execution.steps_executed])
       IN  execution' = [execution EXCEPT
                           !.i = i + 1,
                           !.current_image = acc.image,
                           !.errors = acc.errors,
                           !.steps_executed = acc.steps_executed,
                           !.calls = IF step.active
                                       THEN Append(@, [step |-> i - 1,
                                                       plugin |-> step.plugin_name,
                                                       image |-> execution.current_image])
                                       ELSE @]
    /\ UNCHANGED <<batch_vars, aside>>

\* Pipeline.execute, lines 93-98: the loop is over and the call returns
ExecuteReturn ==
    /\ execution.pc = "loop"
    /\ execution.i > Len(execution.steps)
    /\ execution' = [execution EXCEPT !.pc = "returned"]
    /\ UNCHANGED <<batch_vars, aside>>

\* Pipeline.validate is called on the pipeline, at any point of its use
ValidatePipeline ==
    /\ execution.pc # "none"
    /\ execution.validation = NoValidation
    /\ execution' = [execution EXCEPT !.validation = Validate(execution.steps)]
    /\ UNCHANGED <<batch_vars, aside>>

PipelineNext == ExecuteStep \/ ExecuteReturn \/ ValidatePipeline

PipelineSpec == PipelineInit /\ [][PipelineNext]_vars

\* ------------------------------------------------------------------ parameters
\* A validate_params call on its own: any declared parameters, any keyword arguments
ParamsInit ==
    /\ batch_jobs = [j \in JobIds |-> NoJob]
    /\ task = [j \in JobIds |-> IdleTask]
    /\ websocket_connections = <<>>
    /\ ws_state = [w \in Observers |-> "new"]
    /\ received = [w \in Observers |-> <<>>]
    /\ published = [j \in JobIds |-> <<>>]
    /\ present_at_start = [j \in JobIds |-> {}]
    /\ execution = NoExecution
    /\ PluginsAtStartup
    /\ \E params \in ParamLists, kwargs \in GivenDicts :
         params_call = [pc |-> "called", params |-> params, kwargs |-> kwargs]
    /\ cache = NewCache

\* validate_params runs and returns the dict `validated`
ValidateParamsCall ==
    /\ params_call.pc = "called"
    /\ params_call' = [pc |-> "returned", params |-> params_call.params,
                       kwargs |-> params_call.kwargs,
                       validated |-> ValidateParams(params_call.params,
                                                    params_call.kwargs)]
    /\ UNCHANGED <<batch_vars, execution, registry, library, reload_reply, cache>>

ParamsNext == ValidateParamsCall

ParamsSpec == ParamsInit /\ [][ParamsNext]_vars

\* ------------------------------------------------------------------ properties
Stored == {j \in JobIds : batch_jobs[j] # NoJob}

\* The inputs the run loop of job j iterates over
NumInputs(j) == Len(ItemsToProcess(batch_jobs[j]))

\* The run loop of job j has exited and the job is finalized
LoopExited(j) == task[j].ret = "done" \/ task[j].pc = "done"

\* The loop was left at the cancellation check, before input task[j].i (0-based)
ExitedByCancel(j) == LoopExited(j) /\ task[j].i < NumInputs(j)

\* The loop was left because every input had been taken
ExitedByExhaustion(j) == LoopExited(j) /\ task[j].i = NumInputs(j)

Last(seq) == seq[Len(seq)]

\* C1: a job whose run loop observed cancel_requested at an input boundary has
\* final status cancelled, in the job table (what status(job_id) returns) and in
\* the terminal snapshot.
C1_CancelledIsFinal ==
    \A j \in Stored :
        ExitedByCancel(j) =>
            /\ batch_jobs[j].status = "cancelled"
            /\ Last(published[j]).status = "cancelled"

\* C2: once cancel(job_id) has set cancel_requested the run loop starts no further
\* input: from then on current, processed and failed_count keep the values they
\* had at the request, which count the inputs finished so far (processed +
\* failed_count = i + 1 when inputs 0..i have finished).
C2_NoInputAfterCancel ==
    [][\A j \in Stored :
          /\ batch_jobs[j].processed + batch_jobs[j].failed = task[j].i
          /\ batch_jobs[j].cancelled =>
               /\ task'[j].i = task[j].i
               /\ batch_jobs'[j].current = batch_jobs[j].current
               /\ batch_jobs'[j].processed = batch_jobs[j].processed
               /\ batch_jobs'[j].failed = batch_jobs[j].failed
               /\ batch_jobs'[j].errors = batch_jobs[j].errors]_vars

\* C2 witness: a job cancelled between two inputs has ended with the later
\* inputs never started
C2_Witness ==
    \E j \in Stored :
        /\ task[j].pc = "done"
        /\ batch_jobs[j].cancelled
        /\ task[j].i >= 1
        /\ task[j].i < NumInputs(j)
        /\ batch_jobs[j].processed + batch_jobs[j].failed = task[j].i

\* C3: a job that exhausts its N >= 1 inputs ends failed exactly when no input
\* succeeded (then failed_count = N), and completed otherwise.
C3_FailedIffNoSuccess ==
    \A j \in Stored :
        ExitedByExhaustion(j) =>
            /\ NumInputs(j) >= 1
            /\ batch_jobs[j].status \in {"completed", "failed"}
            /\ batch_jobs[j].status = "failed" <=> batch_jobs[j].processed = 0
            /\ batch_jobs[j].processed = 0 => batch_jobs[j].failed = NumInputs(j)

\* C3 witness: a finished job with a failed and a successful input
C3_Witness ==
    \E j \in Stored :
        /\ ExitedByExhaustion(j)
        /\ batch_jobs[j].processed >= 1
        /\ batch_jobs[j].failed >= 1
        /\ batch_jobs[j].status = "completed"

\* C4: a job that runs its N inputs to exhaustion ends with current = N and
\* processed + failed_count = total = N.
C4_CountersAddUp ==
    \A j \in Stored :
        ExitedByExhaustion(j) =>
            /\ batch_jobs[j].current = NumInputs(j)
            /\ batch_jobs[j].processed + batch_jobs[j].failed = NumInputs(j)
            /\ batch_jobs[j].total = NumInputs(j)

\* The entries of an error list of one kind
CountKind(errors, kind) == Cardinality({k \in 1..Len(errors) : errors[k].kind = kind})

\* C5: at the end of a job that was not cancelled, len(errors) = failed_count.
C5_ErrorsEqualFailed ==
    \A j \in Stored :
        ExitedByExhaustion(j) => Len(batch_jobs[j].errors) = batch_jobs[j].failed

\* C5 as amended: errors holds one message per failed input and, besides, one
\* entry per pipeline step that raised: len(errors) = failed_count + step errors.
C5_ErrorsFailedPlusSteps ==
    \A j \in Stored :
        ExitedByExhaustion(j) =>
            /\ CountKind(batch_jobs[j].errors, "input") = batch_jobs[j].failed
            /\ Len(batch_jobs[j].errors) =
                 batch_jobs[j].failed + CountKind(batch_jobs[j].errors, "step")

\* C5 witness: a finished job with a failed input and a recorded step error
C5_Witness ==
    \E j \in Stored :
        /\ ExitedByExhaustion(j)
        /\ batch_jobs[j].failed >= 1
        /\ CountKind(batch_jobs[j].errors, "step") >= 1

\* The snapshots of job j among what a websocket received, in the order received
RECURSIVE FromJob(_, _)
FromJob(msgs, j) ==
    IF msgs = <<>> THEN <<>>
    ELSE (IF Head(msgs)[1] = j THEN <<Head(msgs)>> ELSE <<>>) \o FromJob(Tail(msgs), j)

\* Every snapshot job j has published, in publication order
AllSnapshots(j) == [k \in 1..Len(published[j]) |-> <<j, k>>]

\* Websocket w is subscribed: registered, with its connection open
Subscribed(w) == InList(w, websocket_connections) /\ ws_state[w] = "open"

\* C6: an observer subscribed from before a job starts until after it finishes
\* has received every snapshot published for the job, in publication order (so
\* any two such observers received them in the same order).
C6_EverySnapshotInOrder ==
    \A j \in Stored : \A w \in Observers :
        (task[j].pc = "done" /\ w \in present_at_start[j] /\ Subscribed(w))
            => FromJob(received[w], j) = AllSnapshots(j)

\* C7: a delivery that does not complete does not stall the publish: the job
\* whose send to an observer has not returned still goes on.
C7_HungObserverDoesNotStall ==
    \A j \in JobIds : [](task[j].pc = "blocked" => <>(task[j].pc # "blocked"))

\* The step by which broadcast_progress returns to run_batch_job
PublishReturns(j) == task[j].pc = "bcast" /\ task'[j].pc \notin {"bcast", "blocked"}

\* C8: when the delivery to an observer fails during a publish, the publish
\* returns, the failed observer is then no longer registered, and every other
\* observer registered throughout the publish has received the snapshot.
C8_FailureIsIsolated ==
    [][\A j \in Stored :
          (PublishReturns(j) /\ task[j].disconnected # <<>>) =>
              /\ \A w \in Observers :
                    InList(w, task[j].disconnected) => ~InList(w, websocket_connections')
              /\ \A w \in task[j].audience :
                    (~InList(w, task[j].disconnected) /\ Subscribed(w))
                        => InList(Delivering(j), received[w])]_vars

\* Job j is between two inputs: input task[j].i - 1 has finished, input task[j].i
\* has not started
BetweenInputs(j) ==
    /\ ~LoopExited(j)
    /\ task[j].i >= 1
    /\ task[j].i < NumInputs(j)

\* C9: when cancellation is requested between two inputs, no further snapshot of
\* the job is published after the request.
C9_NothingPublishedAfterCancel ==
    [][\A j \in Stored :
          (batch_jobs[j].cancelled /\ BetweenInputs(j)) => published'[j] = published[j]]_vars

\* C9 as amended: after a cancellation requested between two inputs no snapshot
\* of a further input is published; the one snapshot published after the request
\* is the terminal snapshot, with current unchanged, and nothing follows it.
C9_OnlyTerminalAfterCancel ==
    [][\A j \in Stored :
          /\ (batch_jobs[j].cancelled /\ BetweenInputs(j) /\ published'[j] # published[j]) =>
                /\ LoopExited(j)'
                /\ batch_jobs'[j].status \in Terminal
                /\ batch_jobs'[j].current = batch_jobs[j].current
                /\ published'[j] = Append(published[j], ProgressMessage(j, batch_jobs'[j]))
          /\ LoopExited(j) => published'[j] = published[j]]_vars

\* C9 witness: a job cancelled between two inputs has ended, and what it
\* published is the initial snapshot, one per input taken and the terminal one
C9_Witness ==
    \E j \in Stored :
        /\ task[j].pc = "done"
        /\ batch_jobs[j].cancelled
        /\ ExitedByCancel(j)
        /\ task[j].i >= 1
        /\ Len(published[j]) = task[j].i + 2
        /\ Last(published[j]).status \in Terminal
        /\ Last(published[j]).current = task[j].i

\* C10: every accepted job eventually has a terminal status with ended_at
\* recorded, whatever the I/O collaborators raise, unless an observer delivery
\* does not return.
C10_EveryJobTerminates ==
    \A j \in JobIds :
        [](batch_jobs[j] # NoJob =>
             <>(\/ batch_jobs[j].status \in Terminal /\ batch_jobs[j].end_time
                \/ task[j].pc = "blocked"))

\* C11: the status of a job, as the job table holds it (what a status query and
\* the on-demand pull read) and as its published snapshots carry it, goes
\* pending -> processing -> one terminal status; a terminal status never changes
\* and the job never returns to pending or processing, whatever cancel, status,
\* pull and subscribe calls come in between.
C11_StatusOnlyAdvances ==
    [][\A j \in JobIds :
          /\ batch_jobs[j] = NoJob =>
                (batch_jobs'[j] = NoJob \/ batch_jobs'[j].status = "pending")
          /\ batch_jobs[j] # NoJob =>
                /\ batch_jobs'[j] # NoJob
                /\ batch_jobs[j].status \in {"pending", "processing"} \cup Terminal
                /\ batch_jobs[j].status = "pending" =>
                      batch_jobs'[j].status \in {"pending", "processing"}
                /\ batch_jobs[j].status = "processing" =>
                      batch_jobs'[j].status \in {"processing"} \cup Terminal
                /\ batch_jobs[j].status \in Terminal =>
                      batch_jobs'[j].status = batch_jobs[j].status
                /\ StatusReply(j)'.status = batch_jobs'[j].status
                /\ \A m \in ActiveJobs' : m.status = batch_jobs'[m.job_id].status
                /\ published'[j] # <<>> =>
                      /\ Last(published'[j]).status = batch_jobs'[j].status
                      /\ \A k \in 1..(Len(published'[j]) - 1) :
                            published'[j][k].status = "processing"]_vars

\* C11 witness: a job that was cancelled while processing has reached a terminal
\* status, after snapshots with status processing
C11_Witness ==
    \E j \in Stored :
        /\ task[j].pc = "done"
        /\ batch_jobs[j].cancelled
        /\ batch_jobs[j].status \in Terminal
        /\ Len(published[j]) >= 3
        /\ published[j][1].status = "processing"
        /\ Last(published[j]).status = batch_jobs[j].status

\* A step of the request names a plugin that does not resolve
Unresolvable(req) ==
    \E k \in 1..Len(req.pipeline_steps) : req.pipeline_steps[k].plugin_name \notin Registered

\* C12: a submit whose pipeline has a step naming an unresolvable plugin is
\* rejected with the validation error and changes nothing: no job is stored, no
\* run loop is scheduled.  So every stored job's pipeline resolves entirely, and
\* only stored jobs have a task.  (A request can be stored only while a job id
\* is free, so the requests are enumerated in those states.)
C12_InvalidPipelineRejected ==
    [][/\ (\E j \in JobIds : batch_jobs[j] = NoJob) =>
             \A req \in Requests, scan \in FolderScans, inCache \in BOOLEAN :
                Unresolvable(req) =>
                   /\ SubmitReply(req, scan, inCache) = "400 invalid pipeline"
                   /\ SubmitRequest(req, scan, inCache) => UNCHANGED vars
       /\ \A j \in JobIds :
             /\ batch_jobs'[j] # NoJob =>
                   \A k \in 1..Len(batch_jobs'[j].pipeline) :
                       batch_jobs'[j].pipeline[k].plugin_name \in Registered
             /\ task'[j].pc # "none" => batch_jobs'[j] # NoJob]_vars

\* C12 witness: with observers subscribed, a submit with an unresolvable step is
\* handled and answered with the validation error, and the job table is empty
C12_Witness ==
    /\ Stored = {}
    /\ \A w \in Observers : Subscribed(w)
    /\ \E req \in Requests, scan \in FolderScans, inCache \in BOOLEAN :
          /\ Unresolvable(req)
          /\ SubmitReply(req, scan, inCache) = "400 invalid pipeline"
          /\ ENABLED SubmitRequest(req, scan, inCache)

\* Sequence p is a prefix of sequence q
IsPrefix(p, q) == Len(p) <= Len(q) /\ \A k \in 1..Len(p) : p[k] = q[k]

\* C13: the inputs are taken one at a time in submission order, each once; an
\* input whose load, pipeline or save fails is recorded (failed_count + 1, one
\* message for that input appended to errors) and the loop goes on: the next
\* step of the run loop starts the next input unless cancellation is observed,
\* and only a cancellation makes the loop leave before all N inputs are taken.
C13_FailureDoesNotStopBatch ==
    [][\A j \in Stored :
          LET job == batch_jobs[j]
              job2 == batch_jobs'[j]
              i == task[j].i
          IN  /\ task'[j].i \in {i, i + 1}
              /\ task'[j].i = i + 1 =>
                    /\ i < NumInputs(j)
                    /\ job2.current = i + 1
                    /\ IsPrefix(job.errors, job2.errors)
                    /\ \/ /\ job2.processed = job.processed + 1
                          /\ job2.failed = job.failed
                          /\ CountKind(job2.errors, "input") = CountKind(job.errors, "input")
                       \/ /\ job2.processed = job.processed
                          /\ job2.failed = job.failed + 1
                          /\ CountKind(job2.errors, "input") =
                                CountKind(job.errors, "input") + 1
                          /\ Last(job2.errors) = [kind |-> "input", step |-> i, plugin |-> "-"]
              /\ (task[j].pc \in {"loop", "sleep"} /\ task'[j] # task[j]
                    /\ i < NumInputs(j) /\ ~job.cancelled) => task'[j].i = i + 1
              /\ (LoopExited(j)' /\ ~LoopExited(j) /\ ~job.cancelled) =>
                    /\ i = NumInputs(j)
                    /\ job2.processed + job2.failed = NumInputs(j)]_vars

\* C13 witness: a job of two inputs whose first input failed went on to its
\* second input and ended by exhaustion, never cancelled
C13_Witness ==
    \E j \in Stored :
        /\ ExitedByExhaustion(j)
        /\ ~batch_jobs[j].cancelled
        /\ NumInputs(j) = 2
        /\ batch_jobs[j].current = 2
        /\ batch_jobs[j].errors # <<>>
        /\ batch_jobs[j].errors[1] = [kind |-> "input", step |-> 0, plugin |-> "-"]
        /\ batch_jobs[j].processed = 1
        /\ batch_jobs[j].failed = 1

\* The run loop of job j has published its initial snapshot
LoopEntered(j) == task[j].pc \notin {"none", "scheduled", "crashed"}

\* C14: what a job has published is, in order: one initial snapshot (status
\* processing, current 0), one snapshot per input started with current 1, 2, ...,
\* and, once the loop has exited, exactly one terminal snapshot carrying the final
\* status, which is the last; so current never decreases along the sequence.
C14_SnapshotSequence ==
    \A j \in Stored :
        LET n == Len(published[j])
            inputs == task[j].i
        IN  IF ~LoopEntered(j) THEN n = 0
            ELSE /\ n = 1 + inputs + (IF LoopExited(j) THEN 1 ELSE 0)
                 /\ \A k \in 1..(1 + inputs) :
                       /\ published[j][k].status = "processing"
                       /\ published[j][k].current = k - 1
                 /\ LoopExited(j) =>
                       /\ published[j][n].status \in Terminal
                       /\ published[j][n].status = batch_jobs[j].status
                       /\ published[j][n].current = inputs
                 /\ \A k \in 1..(n - 1) :
                       published[j][k].current <= published[j][k + 1].current
                 /\ \A k \in 1..n : published[j][k].job_id = j

\* C14 witness: a job of two inputs has finished and published four snapshots
C14_Witness ==
    \E j \in Stored :
        /\ task[j].pc = "done"
        /\ ExitedByExhaustion(j)
        /\ NumInputs(j) = 2
        /\ Len(published[j]) = 4
        /\ published[j][1].current = 0
        /\ published[j][3].current = 2
        /\ published[j][4].status \in Terminal

\* C15: every stored job holds either image ids or file paths, never both; its
\* total is the number of inputs its run loop iterates over, and current never
\* exceeds total.
C15_OneInputKind ==
    \A j \in Stored :
        /\ ~(batch_jobs[j].source_image_ids # <<>> /\ batch_jobs[j].source_paths # <<>>)
        /\ batch_jobs[j].total = NumInputs(j)
        /\ batch_jobs[j].current <= batch_jobs[j].total

\* The fields of a job that a status query or a snapshot shows
Visible(job) ==
    [status |-> job.status, current |-> job.current, total |-> job.total,
     processed |-> job.processed, failed |-> job.failed, errors |-> job.errors,
     start_time |-> job.start_time, end_time |-> job.end_time]

\* C16: cancel changes nothing but the cancellation flag and publishes nothing;
\* on a job whose flag is already set it changes nothing at all (twice is the
\* same as once); and once a job is terminal no step, before or after a cancel,
\* changes its status, current, processed, failed_count, errors or timestamps, or
\* publishes a snapshot of it.
C16_CancelIdempotentNoEffectOnTerminal ==
    [][\A j \in Stored :
          /\ Cancel(j) =>
                /\ batch_jobs'[j] = [batch_jobs[j] EXCEPT !.cancelled = TRUE]
                /\ Visible(batch_jobs'[j]) = Visible(batch_jobs[j])
                /\ \A k \in JobIds \ {j} : batch_jobs'[k] = batch_jobs[k]
                /\ UNCHANGED <<task, websocket_connections, ws_state, received, published>>
          /\ (Cancel(j) /\ batch_jobs[j].cancelled) => UNCHANGED vars
          /\ batch_jobs[j].status \in Terminal =>
                /\ Visible(batch_jobs'[j]) = Visible(batch_jobs[j])
                /\ published'[j] = published[j]]_vars

\* C16 witness: a job that processed all its inputs has ended as completed and
\* carries the cancellation flag, its status, counters and snapshots untouched
C16_Witness ==
    \E j \in Stored :
        /\ task[j].pc = "done"
        /\ ExitedByExhaustion(j)
        /\ batch_jobs[j].processed = NumInputs(j)
        /\ batch_jobs[j].status = "completed"
        /\ batch_jobs[j].cancelled
        /\ batch_jobs[j].end_time
        /\ Len(published[j]) = NumInputs(j) + 2

\* The terminal snapshot of job j has been published: its broadcast has returned
\* and the task is over
Finished(j) == task[j].pc = "done"

\* C17: once the publish of a job's terminal snapshot has returned, no websocket
\* receives a snapshot of the job any more, so an observer that subscribes from
\* then on (it has received nothing before it connects) gets none pushed; the
\* on-demand pull does not list the job; and the status query still returns the
\* job's terminal status and its counters.
C17_NoReplayAfterFinish ==
    [][\A j \in Stored :
          Finished(j) =>
              /\ \A w \in Observers :
                    /\ ws_state[w] = "new" => received[w] = <<>>
                    /\ FromJob(received'[w], j) = FromJob(received[w], j)
              /\ \A m \in ActiveJobs : m.job_id # j
              /\ \A m \in ActiveJobs' : m.job_id # j
              /\ batch_jobs'[j] # NoJob
              /\ StatusReply(j)'.status \in Terminal
              /\ StatusReply(j)' = StatusReply(j)
              /\ StatusReply(j).processed = batch_jobs[j].processed
              /\ StatusReply(j).failed = batch_jobs[j].failed
              /\ StatusReply(j).processed + StatusReply(j).failed = task[j].i]_vars

\* C17 witness: a job has finished and published its snapshots; the one observer
\* that ever connected is subscribed and has received nothing.  (Had it been
\* registered before the last publish returned, that publish would have sent to
\* it, and the send would have been delivered or would still be pending.)
C17_Witness ==
    \E j \in Stored : \E w \in Observers :
        /\ Finished(j)
        /\ batch_jobs[j].status \in Terminal
        /\ Len(published[j]) >= 2
        /\ Subscribed(w)
        /\ received[w] = <<>>
        /\ \A v \in Observers \ {w} : ws_state[v] = "new"
        /\ \A m \in ActiveJobs : m.job_id # j

\* C29: in every state another task can run in (the job's task is at an await, or
\* not running), processed + failed equals current for every stored job.
C29_NoTornCounters ==
    \A j \in Stored :
        batch_jobs[j].processed + batch_jobs[j].failed = batch_jobs[j].current

\* A job's task is suspended in the broadcast after its second input, one input
\* processed and one failed, with an observer registered to read it
C29_Witness ==
    \E j \in Stored :
        /\ task[j].pc = "bcast"
        /\ task[j].ret = "sleep"
        /\ batch_jobs[j].current = 2
        /\ batch_jobs[j].processed = 1
        /\ batch_jobs[j].failed = 1
        /\ Registry # {}

\* ------------------------------------------------------------------ pipeline properties
\* The elements of a set of numbers, in increasing order
SortedSeq(S) ==
    CHOOSE f \in [1..Cardinality(S) -> S] :
        \A a \in 1..Cardinality(S) : \A b \in 1..Cardinality(S) : a < b => f[a] < f[b]

\* The largest element of a non-empty set of numbers
Max(S) == CHOOSE x \in S : \A y \in S : y <= x

\* The enabled steps (1-based) of the pipeline being executed
EnabledSteps == {k \in 1..Len(execution.steps) : execution.steps[k].active}

\* The enabled steps the loop has been through so far
Attempted == {k \in EnabledSteps : k < execution.i}

\* The steps gone through whose call raised, and those whose call returned
RaisedSteps == {k \in Attempted : StepRaises(execution.steps, k, execution.raises)}
SucceededSteps == Attempted \ RaisedSteps

\* The error entry of step k (1-based; the message names the 0-based index)
StepError(k) == [kind |-> "step", step |-> k - 1, plugin |-> execution.steps[k].plugin_name]

\* The error list with one entry per step that raised so far, in step order
ExpectedErrors ==
    LET raised == SortedSeq(RaisedSteps)
    IN  [p \in 1..Len(raised) |-> StepError(raised[p])]

\* C18: execute calls every enabled step, in declared order; the image passed
\* to a step is the output of the nearest preceding enabled step that succeeded
\* (the input image if none); a step that raises adds one error naming its index
\* and plugin and leaves the working image as it was; the image returned is the
\* output of the last enabled step that succeeded.
C18_StepsChainThroughFailures ==
    execution.pc # "none" =>
        LET e == execution
            att == SortedSeq(Attempted)
            OutputOf(p) == Append(e.calls[p].image, e.calls[p].plugin)
            PrevOk(p) == {q \in 1..(p - 1) : q <= Len(att) /\ att[q] \in SucceededSteps}
            Chained(p) == IF PrevOk(p) = {} THEN e.image ELSE OutputOf(Max(PrevOk(p)))
        IN  /\ Len(e.calls) = Len(att)
            /\ \A p \in 1..Len(att) :
                  /\ e.calls[p].step = att[p] - 1
                  /\ e.calls[p].plugin = e.steps[att[p]].plugin_name
                  /\ e.calls[p].image = Chained(p)
            /\ e.errors = ExpectedErrors
            /\ e.current_image = Chained(Len(att) + 1)
            /\ e.pc = "returned" =>
                  /\ Attempted = EnabledSteps
                  /\ ExecutionResult(e).image = Chained(Len(att) + 1)
                  /\ ExecutionResult(e) = Execute(e.steps, e.image, e.raises)

\* C18 witness: a call has returned in which an enabled step raised between
\* two enabled steps that succeeded
C18_Witness ==
    /\ execution.pc = "returned"
    /\ \E a \in SucceededSteps, r \in RaisedSteps, b \in SucceededSteps : a < r /\ r < b

\* C19: the steps_executed that execute returns is the count of steps attempted:
\* the number of enabled steps of the pipeline, whether or not any of them raised.
C19_CountsAttempts ==
    execution.pc = "returned" =>
        ExecutionResult(execution).steps_executed = Cardinality(EnabledSteps)

\* C19 as amended: steps_executed counts the enabled steps whose call returned:
\* the number of enabled steps less those that raised, which is the number of
\* enabled steps exactly when none raised.
C19_CountsSuccesses ==
    execution.pc = "returned" =>
        /\ ExecutionResult(execution).steps_executed =
              Cardinality(EnabledSteps) - Cardinality(RaisedSteps)
        /\ ExecutionResult(execution).steps_executed = Cardinality(EnabledSteps)
              <=> RaisedSteps = {}

\* C19 witness: a call has returned with fewer steps counted than are enabled
C19_Witness ==
    /\ execution.pc = "returned"
    /\ RaisedSteps # {}
    /\ ExecutionResult(execution).steps_executed >= 1
    /\ ExecutionResult(execution).steps_executed < Cardinality(EnabledSteps)

\* C20: execute returns steps_executed equal to the number of enabled steps
\* whose call returned without raising, an error list with exactly one entry per
\* enabled step that raised, in step order, and success = (errors is empty);
\* hence steps_executed + len(errors) = number of enabled steps.
C20_ResultAccounts ==
    execution.pc = "returned" =>
        LET r == ExecutionResult(execution)
        IN  /\ Attempted = EnabledSteps
            /\ r.steps_executed = Cardinality(SucceededSteps)
            /\ Len(r.errors) = Cardinality(RaisedSteps)
            /\ r.errors = ExpectedErrors
            /\ r.success <=> r.errors = <<>>
            /\ r.success <=> RaisedSteps = {}
            /\ r.steps_executed + Len(r.errors) = Cardinality(EnabledSteps)
            /\ r = Execute(execution.steps, execution.image, execution.raises)

\* C20 witness: a call has returned with two steps that raised and one that
\* succeeded
C20_Witness ==
    /\ execution.pc = "returned"
    /\ Cardinality(RaisedSteps) >= 2
    /\ SucceededSteps # {}
    /\ ~ExecutionResult(execution).success

\* The disabled steps (1-based) of the pipeline being executed
DisabledSteps == (1..Len(execution.steps)) \ EnabledSteps

\* C21: a disabled step is never called and never appears in errors, even when
\* its plugin does not resolve or would raise; a pipeline with no enabled step
\* returns the input image with success = true and steps_executed = 0.
C21_DisabledStepsUntouched ==
    execution.pc # "none" =>
        LET e == execution
        IN  /\ \A p \in 1..Len(e.calls) : (e.calls[p].step + 1) \in EnabledSteps
            /\ \A p \in 1..Len(e.errors) : (e.errors[p].step + 1) \in EnabledSteps
            /\ e.steps_executed <= Cardinality(EnabledSteps)
            /\ (e.pc = "returned" /\ EnabledSteps = {}) =>
                  /\ e.calls = <<>>
                  /\ ExecutionResult(e).image = e.image
                  /\ ExecutionResult(e).success
                  /\ ExecutionResult(e).steps_executed = 0
                  /\ ExecutionResult(e).errors = <<>>

\* C21 witness: a call has returned on a pipeline of disabled steps only, one of
\* which names a plugin that does not resolve and one of which would raise
C21_Witness ==
    /\ execution.pc = "returned"
    /\ EnabledSteps = {}
    /\ execution.image # <<>>
    /\ \E k \in DisabledSteps : execution.steps[k].plugin_name \notin Registered
    /\ \E k \in DisabledSteps :
          execution.steps[k].plugin_name \in Registered /\ k \in execution.raises

\* The steps (1-based) of the pipeline whose plugin does not resolve
UnresolvedSteps ==
    {k \in 1..Len(execution.steps) : execution.steps[k].plugin_name \notin Registered}

\* C22: validate returns one error per step whose plugin does not resolve, in
\* step order, for enabled and disabled steps alike and without stopping at the
\* first; ok is true exactly when the list is empty; the call changes neither
\* the pipeline nor the registry.
C22_ValidateReportsEveryStep ==
    [][(execution.pc # "none" /\ execution.validation = NoValidation
          /\ execution'.validation # NoValidation) =>
          LET v == execution'.validation
              unresolved == SortedSeq(UnresolvedSteps)
          IN  /\ Len(v.errors) = Cardinality(UnresolvedSteps)
              /\ \A p \in 1..Len(unresolved) :
                    v.errors[p] = [kind |-> "not_found", step |-> unresolved[p] - 1,
                                   plugin |-> execution.steps[unresolved[p]].plugin_name]
              /\ v.is_valid <=> v.errors = <<>>
              /\ v.is_valid <=> UnresolvedSteps = {}
              /\ execution' = [execution EXCEPT !.validation = v]
              /\ UNCHANGED <<registry, library>>]_vars

\* C22 witness: validate has reported two steps, one of them disabled, with a
\* step that resolves between them
C22_Witness ==
    /\ execution.pc # "none"
    /\ execution.validation # NoValidation
    /\ Len(execution.validation.errors) = 2
    /\ ~execution.validation.is_valid
    /\ \E a \in UnresolvedSteps, b \in UnresolvedSteps :
          /\ a < b
          /\ ~execution.steps[a].active
          /\ \E k \in 1..Len(execution.steps) : a < k /\ k < b /\ k \notin UnresolvedSteps

\* ------------------------------------------------------------------ plugin reload
\* A reload on its own: the library directory holds any files, in any glob order,
\* and the registry still holds what the startup scan found
RegistryInit ==
    /\ batch_jobs = [j \in JobIds |-> NoJob]
    /\ task = [j \in JobIds |-> IdleTask]
    /\ websocket_connections = <<>>
    /\ ws_state = [w \in Observers |-> "new"]
    /\ received = [w \in Observers |-> <<>>]
    /\ published = [j \in JobIds |-> <<>>]
    /\ present_at_start = [j \in JobIds |-> {}]
    /\ execution = NoExecution
    /\ library \in Libraries
    /\ registry = Discover(StartupLibrary)
    /\ reload_reply = NoReload
    /\ params_call = NoParamsCall
    /\ cache = NewCache

\* reload_plugins (POST /reload-plugins): initialize_plugins runs discover_plugins,
\* which has no await, and the handler answers with the count
Reload ==
    /\ registry' = Discover(library)
    /\ reload_reply' = [sent |-> TRUE, success |-> TRUE,
                        plugins_loaded |-> DiscoverCount(library)]
    /\ UNCHANGED <<batch_vars, execution, library, params_call, cache>>

RegistryNext == Reload

RegistrySpec == RegistryInit /\ [][RegistryNext]_vars

\* ------------------------------------------------------------------ reload during a batch
\* The batch orchestrator with no observer connected, while the library directory
\* has been edited since startup and a reload can be requested at any point
ReloadInit ==
    /\ batch_jobs = [j \in JobIds |-> NoJob]
    /\ task = [j \in JobIds |-> IdleTask]
    /\ websocket_connections = <<>>
    /\ ws_state = [w \in Observers |-> "new"]
    /\ received = [w \in Observers |-> <<>>]
    /\ published = [j \in JobIds |-> <<>>]
    /\ present_at_start = [j \in JobIds |-> {}]
    /\ execution = NoExecution
    /\ library \in LibrariesUpTo(MaxReloadFiles)
    /\ registry = Discover(StartupLibrary)
    /\ reload_reply = NoReload
    /\ params_call = NoParamsCall
    /\ cache = NewCache

ReloadNext ==
    \/ Submit
    \/ \E j \in JobIds : Start(j)
    \/ \E j \in JobIds : BroadcastStep(j)
    \/ \E j \in JobIds : LoopIteration(j)
    \/ \E j \in JobIds : Cancel(j)
    \/ Reload

ReloadSpec == ReloadInit /\ [][ReloadNext]_vars

\* ------------------------------------------------------------------ image cache
\* The dict the name image_cache of images.py is bound to, and the dict the name
\* image_cache of batch.py is bound to
ImagesCache == cache.dicts[cache.images]
BatchCache == cache.dicts[cache.batch]

\* upload_image, lines 225-238: a fresh id is stored in the dict of images.py
Upload ==
    /\ cache.uploaded < MaxImages
    /\ cache' = [cache EXCEPT !.dicts[cache.images] = @ \cup {cache.uploaded + 1},
                              !.uploaded = @ + 1]
    /\ UNCHANGED <<batch_vars, execution, registry, library, reload_reply, params_call>>

\* delete_image: 404 when the id is not in the dict of images.py, else it is popped
DeleteImage(id) ==
    /\ id \in ImagesCache
    /\ cache' = [cache EXCEPT !.dicts[cache.images] = @ \ {id}]
    /\ UNCHANGED <<batch_vars, execution, registry, library, reload_reply, params_call>>

\* delete_all_images, lines 362-371: `global image_cache; image_cache = {}` binds
\* the name of images.py to a new empty dict; the old dict keeps its entries
DeleteAll ==
    /\ cache.images <= MaxDeleteAll
    /\ cache' = [cache EXCEPT !.images = @ + 1]
    /\ UNCHANGED <<batch_vars, execution, registry, library, reload_reply, params_call>>

\* start_batch_run, line 257: no id of the request is missing from the dict that
\* the name image_cache of batch.py is bound to
InBatchCache(req) ==
    \A k \in DOMAIN req.source_image_ids : req.source_image_ids[k] \in BatchCache

\* start_batch_run, with the image cache as it is
SubmitFromCache ==
    \E req \in Requests, scan \in FolderScans : SubmitRequest(req, scan, InBatchCache(req))

CacheInit == Init

CacheNext ==
    \/ Upload
    \/ \E id \in ImageIds : DeleteImage(id)
    \/ DeleteAll
    \/ SubmitFromCache

CacheSpec == CacheInit /\ [][CacheNext]_vars

\* ------------------------------------------------------------------ parameter properties
\* The names SPEC.params declares
DeclaredNames == {params_call.params[k].name : k \in DOMAIN params_call.params}

\* The declared range parameters
DeclaredRanges ==
    {params_call.params[k].name :
        k \in {x \in DOMAIN params_call.params : params_call.params[x].type = "range"}}

\* C23: validate_params passes every key of the keyword arguments that is not a
\* declared parameter name through to its result, with its value unchanged.
C23_UnknownKeysPassThrough ==
    params_call.pc = "returned" =>
        \A key \in DOMAIN params_call.kwargs \ DeclaredNames :
            /\ key \in DOMAIN params_call.validated
            /\ params_call.validated[key] = params_call.kwargs[key]

\* C24: for a declared range parameter p the result always carries p_low and
\* p_high, and a p_low or p_high the caller supplied is kept in the result.
C24_RangeKeysKept ==
    params_call.pc = "returned" =>
        \A p \in DeclaredRanges :
            \A key \in {p \o "_low", p \o "_high"} :
                /\ key \in DOMAIN params_call.validated
                /\ key \in DOMAIN params_call.kwargs =>
                      params_call.validated[key] = params_call.kwargs[key]


\* ------------------------------------------------------------------ registry properties
\* The files of the library whose load reaches and completes the registration
LoadedFiles == {k \in DOMAIN library : Loads(library[k])}

\* The loaded files that expose the name
LoadedAs(n) == {k \in LoadedFiles : library[k].name = n}

\* C25: a reload always answers, and after it no registry entry comes from a file
\* whose load failed, while the name of every file that loaded resolves, to a
\* descriptor and a plugin taken from loaded files of that name.
C25_LoadFailureIsolated ==
    reload_reply.sent =>
        /\ reload_reply.success
        /\ \A k \in DOMAIN library \ LoadedFiles :
              \A n \in FileNames : registry.plugins[n] # k /\ registry.specs[n] # k
        /\ \A k \in LoadedFiles :
              /\ library[k].name \in Registered
              /\ registry.plugins[library[k].name] \in LoadedAs(library[k].name)
              /\ registry.specs[library[k].name] \in LoadedAs(library[k].name)

\* A reload has run over a library where a file that fails to load comes before
\* a file that loads, and after one
C25_Witness ==
    /\ reload_reply.sent
    /\ \E k1, k2 \in DOMAIN library :
          /\ k1 < k2
          /\ ~Loads(library[k1])
          /\ Loads(library[k2])
          /\ registry.plugins[library[k2].name] = k2

\* C26: after a reload every registered descriptor has a non-empty name and
\* parameters whose defaults lie within their bounds.
C26_RegisteredAreWellFormed ==
    reload_reply.sent =>
        \A n \in Registered :
            /\ n # ""
            /\ library[registry.specs[n]].wellformed

\* C27: after a reload each name exposed by a loaded file resolves to the
\* descriptor and the plugin of the last such file in discovery order, and every
\* other name resolves to nothing.
C27_LastDiscoveredWins ==
    reload_reply.sent =>
        \A n \in FileNames :
            IF LoadedAs(n) = {}
              THEN registry.plugins[n] = NoPlugin /\ registry.specs[n] = NoPlugin
              ELSE registry.plugins[n] = Max(LoadedAs(n))
                   /\ registry.specs[n] = Max(LoadedAs(n))

\* A reload has run over a library where two loaded files expose one name and no
\* loaded file exposes "blur", which resolved before the reload
C27_Witness ==
    /\ reload_reply.sent
    /\ \E n \in FileNames : Cardinality(LoadedAs(n)) >= 2
    /\ LoadedAs("blur") = {}
    /\ "blur" \notin Registered


\* ------------------------------------------------------------------ reload properties
\* The errors a step of the system appends to the job's list
NewErrors(j) ==
    {batch_jobs'[j].errors[k] :
        k \in (Len(batch_jobs[j].errors) + 1)..Len(batch_jobs'[j].errors)}

\* C28: every enabled step the run loop of an accepted job executes resolves in
\* the registry when it is executed, so the job never records a step error for a
\* plugin that is not registered at that time.
C28_AcceptedStepsResolve ==
    [][\A j \in JobIds :
          batch_jobs[j] # NoJob /\ batch_jobs'[j] # NoJob =>
              \A e \in NewErrors(j) : e.kind = "step" => e.plugin \in Registered]_vars


\* ------------------------------------------------------------------ image cache properties
\* A request that names image ids only, with a pipeline that validates
ByImageIds(req) ==
    /\ ~req.input_folder
    /\ req.source_image_ids # <<>>
    /\ Validate(req.pipeline_steps).is_valid

\* Every id of the request is in the cache that upload and delete operate on
AllPresent(req) ==
    \A k \in DOMAIN req.source_image_ids : req.source_image_ids[k] \in ImagesCache

\* C30: after any uploads, deletes and delete-alls, submit accepts a request by
\* image ids exactly when all its ids are in the image cache, and answers Not
\* Found otherwise.
C30_SubmitConsultsLiveCache ==
    \A req \in Requests, scan \in FolderScans :
        ByImageIds(req) =>
            SubmitReply(req, scan, InBatchCache(req)) =
                IF AllPresent(req) THEN "started" ELSE "404 images not found"

====
